---- MODULE Spec2Model ----
(***************************************************************************)
(* Session handling (useAuth), the shared HTTP client (api) and the pages  *)
(* that drive them, for the Urban marketplace browser client.              *)
(*                                                                         *)
(* JavaScript values are encoded with one TLA+ type per slot:              *)
(*   - a nullable value (User | null, string | null, an optional field)    *)
(*     is a set with at most one element: null is {} and v is {v};         *)
(*   - the text kept under the "user" key of localStorage is a sequence of *)
(*     lexical tokens, so that JSON.stringify and JSON.parse are real      *)
(*     conversions; the empty string is the empty sequence;                *)
(*   - the text kept under the "token" key is a TLA+ string.               *)
(***************************************************************************)
EXTENDS Integers, Sequences, FiniteSets, TLC

\* Total number of calls of API functions in one behaviour.
MaxCalls == 2

\* Total number of calls of API functions in one behaviour of a single tab.
MaxPageCalls == 4

\* Browser tabs sharing one localStorage.
Tabs == {1, 2}

\* The tab that acts when one tab is followed alone.
PageTabs == {1}

null == {}

\* The one element of a non-null nullable value.
The(opt) == CHOOSE v \in opt : TRUE

(***************************************************************************)
(* Identities and credentials the backend may return (api.ts, User and     *)
(* TokenResponse).                                                         *)
(***************************************************************************)
UserRole == {"customer", "worker", "tutor"}

Customer1 ==
  [id |-> 1, name |-> "A", email |-> "a@urban.test", role |-> "customer",
   trust_score |-> 0, created_at |-> "2024-01-01"]

Worker2 ==
  [id |-> 2, name |-> "B", email |-> "b@urban.test", role |-> "worker",
   trust_score |-> 7, created_at |-> "2024-02-02"]

Tutor3 ==
  [id |-> 3, name |-> "C", email |-> "c@urban.test", role |-> "tutor",
   trust_score |-> 9, created_at |-> "2024-03-03"]

Users == {Customer1, Worker2, Tutor3}

\* access_token values; the client does not validate them, "" included.
Tokens == {"", "tok123"}

(***************************************************************************)
(* JSON.stringify / JSON.parse on the token-sequence encoding of text.     *)
(***************************************************************************)
DigitText == <<"0", "1", "2", "3", "4", "5", "6", "7", "8", "9">>

\* String(n) for the numbers the model uses.
NumberToText(n) == DigitText[n + 1]

IsNumberText(tok) == \E i \in 1..Len(DigitText) : DigitText[i] = tok

TextToNumber(tok) == (CHOOSE i \in 1..Len(DigitText) : DigitText[i] = tok) - 1

Quote == "\""

StringLiteral(s) == <<Quote, s, Quote>>

NumberLiteral(n) == <<NumberToText(n)>>

Member(key, literal) == StringLiteral(key) \o <<":">> \o literal

\* JSON.stringify(u) for a User object: its own properties in insertion order.
JSONstringify(u) ==
  <<"{">> \o Member("id", NumberLiteral(u.id))
    \o <<",">> \o Member("name", StringLiteral(u.name))
    \o <<",">> \o Member("email", StringLiteral(u.email))
    \o <<",">> \o Member("role", StringLiteral(u.role))
    \o <<",">> \o Member("trust_score", NumberLiteral(u.trust_score))
    \o <<",">> \o Member("created_at", StringLiteral(u.created_at))
    \o <<"}">>

\* A failed parse (JSON.parse throws SyntaxError).
ParseFailed == [ok |-> FALSE, value |-> <<>>, rest |-> <<>>]

\* One JSON value at the head of toks: a string or a number literal.
ParseLiteral(toks) ==
  IF toks = <<>> THEN ParseFailed
  ELSE IF Head(toks) = Quote
    THEN IF Len(toks) >= 3 /\ toks[3] = Quote /\ toks[2] # Quote
           THEN [ok |-> TRUE, value |-> <<toks[2]>>, rest |-> SubSeq(toks, 4, Len(toks))]
           ELSE ParseFailed
  ELSE IF IsNumberText(Head(toks))
    THEN [ok |-> TRUE, value |-> <<TextToNumber(Head(toks))>>, rest |-> Tail(toks)]
  ELSE ParseFailed

RECURSIVE ParseMembers(_, _)
\* The members of an object after "{" or ",": "key" : literal, then "," or "}".
\* acc maps the keys read so far to their values.
ParseMembers(toks, acc) ==
  IF Len(toks) < 5 \/ toks[1] # Quote \/ toks[3] # Quote \/ toks[4] # ":"
    THEN ParseFailed
  ELSE LET key == toks[2]
           lit == ParseLiteral(SubSeq(toks, 5, Len(toks)))
       IN IF ~lit.ok \/ lit.rest = <<>> THEN ParseFailed
          ELSE LET obj == [k \in (DOMAIN acc) \cup {key} |->
                             IF k = key THEN lit.value[1] ELSE acc[k]]
               IN IF lit.rest = <<"}">>
                    THEN [ok |-> TRUE, value |-> <<obj>>, rest |-> <<>>]
                  ELSE IF Head(lit.rest) = ","
                    THEN ParseMembers(Tail(lit.rest), obj)
                  ELSE ParseFailed

\* JSON.parse(text): threw, or the value read (null, or an object).
JSONparse(text) ==
  IF text = <<"null">> THEN [threw |-> FALSE, value |-> null]
  ELSE IF text # <<>> /\ Head(text) = "{"
    THEN LET r == ParseMembers(Tail(text), [k \in {} |-> 0])
         IN IF r.ok THEN [threw |-> FALSE, value |-> {r.value[1]}]
            ELSE [threw |-> TRUE, value |-> null]
  ELSE [threw |-> TRUE, value |-> null]

(***************************************************************************)
(* localStorage: the "user" and "token" entries, each null or one string.  *)
(***************************************************************************)
getItem(ls, key) == ls[key]

setItem(ls, key, value) == [ls EXCEPT ![key] = {value}]

removeItem(ls, key) == [ls EXCEPT ![key] = null]

EmptyStorage == [user |-> null, token |-> null]

\* The text `{not json`.
NotJson == <<"{", "not json">>

(***************************************************************************)
(* The shared HTTP client (lib/api.ts).                                    *)
(***************************************************************************)
\* typeof window !== "undefined": requests are issued and the hook's effect
\* runs only in the browser (effects and event handlers of client pages).
WindowDefined == TRUE

\* JavaScript truthiness of a string | null value.
TruthyString(opt) == opt # null /\ The(opt) # ""

\* The same for the token-sequence encoding of text.
TruthyText(opt) == opt # null /\ The(opt) # <<>>

\* axios.create: every request starts from the instance defaults.
ApiDefaults == [ContentType |-> "application/json", Authorization |-> null]

Multipart == [ApiDefaults EXCEPT !.ContentType = "multipart/form-data"]

\* api.<method>(url, ...) as each exported API function builds it.
ApiConfig(fn) ==
  CASE fn = "auth.register" ->
         [method |-> "post", url |-> "/api/auth/register", headers |-> ApiDefaults]
    [] fn = "auth.login" ->
         [method |-> "post", url |-> "/api/auth/login", headers |-> ApiDefaults]
    [] fn = "auth.me" ->
         [method |-> "get", url |-> "/api/auth/me", headers |-> ApiDefaults]
    [] fn = "constants.serviceTypes" ->
         [method |-> "get", url |-> "/api/constants/service-types", headers |-> ApiDefaults]
    [] fn = "workers.createProfile" ->
         [method |-> "post", url |-> "/api/workers/profile", headers |-> Multipart]
    [] fn = "workers.getProfile" ->
         [method |-> "get", url |-> "/api/workers/profile", headers |-> ApiDefaults]
    [] fn = "tutors.createProfile" ->
         [method |-> "post", url |-> "/api/tutors/profile", headers |-> Multipart]
    [] fn = "tutors.getProfile" ->
         [method |-> "get", url |-> "/api/tutors/profile", headers |-> ApiDefaults]
    [] fn = "providers.search" ->
         [method |-> "get", url |-> "/api/providers/search", headers |-> ApiDefaults]
    [] fn = "bookings.list" ->
         [method |-> "get", url |-> "/api/bookings", headers |-> ApiDefaults]
    [] fn = "bookings.create" ->
         [method |-> "post", url |-> "/api/bookings", headers |-> ApiDefaults]
    [] fn = "bookings.updateStatus" ->
         [method |-> "patch", url |-> "/api/bookings/{bookingId}", headers |-> ApiDefaults]
    [] fn = "ratings.create" ->
         [method |-> "post", url |-> "/api/ratings", headers |-> ApiDefaults]
    [] fn = "chat.send" ->
         [method |-> "post", url |-> "/api/chat", headers |-> ApiDefaults]

\* `Bearer ${token}`
Bearer(token) == "Bearer " \o token

\* A faulty variant: attaches the header whenever the entry exists, also when
\* it is the empty string.
RequestInterceptorNullCheck(config, ls) ==
  LET token == getItem(ls, "token")
  IN IF token # null
       THEN [config EXCEPT !.headers.Authorization = {Bearer(The(token))}]
       ELSE config

\* api.interceptors.request: the config that is sent.
RequestInterceptor(config, ls) ==
  IF WindowDefined
    THEN LET token == getItem(ls, "token")
         IN IF TruthyString(token)
              THEN [config EXCEPT !.headers.Authorization = {Bearer(The(token))}]
              ELSE config
    ELSE config

\* What axios hands to the response interceptors: a response r (fulfilled), or
\* an error err whose err.response is the failing response, or is missing
\* when no response arrived.
\* The fields of response bodies the pages read: a TokenResponse's user and
\* access_token, an error body's detail, the Booking[] of bookings.list, the
\* ProviderSearchResult[] of providers.search, a ChatResponse's reply.
NoData ==
  [user |-> null, access_token |-> null, detail |-> null,
   bookings |-> {}, results |-> {}, reply |-> null]

Fulfilled(status, data) ==
  [kind |-> "fulfilled", response |-> {[status |-> status, data |-> data]}]

\* A failing response whose body carries detail (null: no such field).
RejectedWith(status, detail) ==
  [kind |-> "rejected",
   response |-> {[status |-> status, data |-> [NoData EXCEPT !.detail = detail]]}]

Rejected(status) == RejectedWith(status, null)

NetworkError == [kind |-> "rejected", response |-> null]

\* err.response?.status === 401
IsUnauthorized(err) ==
  err.response # null /\ The(err.response).status = 401

\* Faulty variants of the response interceptors: one forgets the identity
\* entry, one resolves the 401 instead of rejecting, one treats every failure
\* as an authorization failure, one sends the request again after a 401.
ResponseInterceptorKeepsUser(outcome, ls) ==
  IF outcome.kind = "rejected" /\ IsUnauthorized(outcome)
    THEN [localStorage |-> removeItem(ls, "token"),
          href |-> {"/login"}, settled |-> outcome, resent |-> 0]
    ELSE [localStorage |-> ls, href |-> null, settled |-> outcome, resent |-> 0]

ResponseInterceptorSwallows(outcome, ls) ==
  IF outcome.kind = "rejected" /\ IsUnauthorized(outcome)
    THEN [localStorage |-> removeItem(removeItem(ls, "token"), "user"),
          href |-> {"/login"},
          settled |-> [kind |-> "fulfilled", response |-> outcome.response],
          resent |-> 0]
    ELSE [localStorage |-> ls, href |-> null, settled |-> outcome, resent |-> 0]

ResponseInterceptorAnyFailure(outcome, ls) ==
  IF outcome.kind = "rejected"
    THEN [localStorage |-> removeItem(removeItem(ls, "token"), "user"),
          href |-> {"/login"}, settled |-> outcome, resent |-> 0]
    ELSE [localStorage |-> ls, href |-> null, settled |-> outcome, resent |-> 0]

ResponseInterceptorRetries(outcome, ls) ==
  IF outcome.kind = "rejected" /\ IsUnauthorized(outcome)
    THEN [localStorage |-> removeItem(removeItem(ls, "token"), "user"),
          href |-> {"/login"}, settled |-> outcome, resent |-> 1]
    ELSE [localStorage |-> ls, href |-> null, settled |-> outcome, resent |-> 0]

\* api.interceptors.response: what the pair of handlers does with an arriving
\* outcome, given the storage: the storage afterwards, the value assigned to
\* window.location.href (null: none), the settlement handed to the caller,
\* and how many times the request is sent again (the handlers never do).
ResponseInterceptor(outcome, ls) ==
  IF outcome.kind = "fulfilled"
    THEN [localStorage |-> ls, href |-> null, settled |-> outcome, resent |-> 0]
  ELSE IF IsUnauthorized(outcome) /\ WindowDefined
    THEN [localStorage |-> removeItem(removeItem(ls, "token"), "user"),
          href |-> {"/login"}, settled |-> outcome, resent |-> 0]
  ELSE [localStorage |-> ls, href |-> null, settled |-> outcome, resent |-> 0]

(***************************************************************************)
(* The session hook (lib/auth.ts, useAuth), on its state s = [user,        *)
(* loading]; each operator gives the hook state and the storage afterwards.*)
(***************************************************************************)
\* useState(null), useState(true)
InitialSession == [user |-> null, loading |-> TRUE]

\* Faulty variants of the initialization effect: one without the try/catch,
\* one that deletes an entry it cannot parse.
InitEffectNoCatch(s, ls) ==
  LET stored == getItem(ls, "user")
  IN IF TruthyText(stored)
       THEN LET parsed == JSONparse(The(stored))
            IN IF parsed.threw
                 THEN [user |-> s.user, loading |-> s.loading, threw |-> TRUE,
                       localStorage |-> ls]
                 ELSE [user |-> parsed.value, loading |-> FALSE, threw |-> FALSE,
                       localStorage |-> ls]
       ELSE [user |-> s.user, loading |-> FALSE, threw |-> FALSE,
             localStorage |-> ls]

InitEffectDropsMalformed(s, ls) ==
  LET stored == getItem(ls, "user")
  IN IF TruthyText(stored)
       THEN LET parsed == JSONparse(The(stored))
            IN [user |-> IF parsed.threw THEN null ELSE parsed.value,
                loading |-> FALSE, threw |-> FALSE,
                localStorage |-> IF parsed.threw THEN removeItem(ls, "user") ELSE ls]
       ELSE [user |-> s.user, loading |-> FALSE, threw |-> FALSE,
             localStorage |-> ls]

\* The body of the initialization effect where typeof window !== "undefined"
\* evaluates to windowDefined; threw: an exception escaped the effect.
InitEffectIn(windowDefined, s, ls) ==
  LET stored == IF windowDefined THEN getItem(ls, "user") ELSE null
  IN IF TruthyText(stored)
       THEN LET parsed == JSONparse(The(stored))
            IN [user |-> IF parsed.threw THEN null ELSE parsed.value,
                loading |-> FALSE, threw |-> FALSE, localStorage |-> ls]
       ELSE [user |-> s.user, loading |-> FALSE, threw |-> FALSE,
             localStorage |-> ls]

\* The initialization effect as it runs in the browser.
InitEffect(s, ls) == InitEffectIn(WindowDefined, s, ls)

\* Faulty variants of setUserAndToken: one does not store the token, one
\* stores String(u) instead of JSON.stringify(u).
setUserAndTokenForgetsToken(s, ls, u, token) ==
  [user |-> {u}, loading |-> s.loading,
   localStorage |-> setItem(ls, "user", JSONstringify(u))]

setUserAndTokenNoStringify(s, ls, u, token) ==
  [user |-> {u}, loading |-> s.loading,
   localStorage |-> setItem(setItem(ls, "user", <<"[object Object]">>), "token", token)]

\* A faulty variant: the commit puts the session back into loading.
setUserAndTokenSetsLoading(s, ls, u, token) ==
  [user |-> {u}, loading |-> TRUE,
   localStorage |-> setItem(setItem(ls, "user", JSONstringify(u)), "token", token)]

setUserAndToken(s, ls, u, token) ==
  [user |-> {u}, loading |-> s.loading,
   localStorage |-> IF WindowDefined
                      THEN setItem(setItem(ls, "user", JSONstringify(u)), "token", token)
                      ELSE ls]

\* A faulty variant of logout: the token entry is left behind.
logoutKeepsToken(s, ls) ==
  [user |-> null, loading |-> s.loading,
   localStorage |-> removeItem(ls, "user")]

logout(s, ls) ==
  [user |-> null, loading |-> s.loading,
   localStorage |-> IF WindowDefined
                      THEN removeItem(removeItem(ls, "user"), "token")
                      ELSE ls]

(***************************************************************************)
(* The pages and their call sites.                                         *)
(***************************************************************************)
Pages == {"/", "/login", "/register", "/dashboard", "/search"}

\* Every route of the application.
AllPages ==
  Pages \cup {"/dashboard/worker-profile", "/dashboard/tutor-profile", "/chat"}

\* Pages whose guard effect runs once the session has loaded.
GuardedPages ==
  {"/dashboard", "/search", "/dashboard/worker-profile", "/dashboard/tutor-profile"}

\* user.role !== "worker" / "tutor": the role a profile page asks for (null:
\* the page asks for none).
RequiredRole(p) ==
  CASE p = "/dashboard/worker-profile" -> {"worker"}
    [] p = "/dashboard/tutor-profile" -> {"tutor"}
    [] OTHER -> null

\* The call site of the request a page's guard effect ends with.
GuardSite(p) ==
  CASE p = "/dashboard" -> "DashboardPage.load"
    [] p = "/search" -> "SearchPage.effect"
    [] p = "/dashboard/worker-profile" -> "WorkerProfilePage.effect"
    [] p = "/dashboard/tutor-profile" -> "TutorProfilePage.effect"

\* A faulty variant of the guard effect: it does not wait for the session.
GuardEffectIgnoresLoading(p, s) ==
  IF s.user = null THEN [to |-> {"/login"}, fetch |-> FALSE]
  ELSE IF RequiredRole(p) # null /\ The(s.user).role \notin RequiredRole(p)
    THEN [to |-> {"/dashboard"}, fetch |-> FALSE]
  ELSE [to |-> null, fetch |-> TRUE]

\* The guard effect of a protected page over the session s its render saw:
\* the route it pushes (null: none) and whether it goes on to its request.
GuardEffect(p, s) ==
  IF s.loading THEN [to |-> null, fetch |-> FALSE]
  ELSE IF s.user = null THEN [to |-> {"/login"}, fetch |-> FALSE]
  ELSE IF RequiredRole(p) # null /\ The(s.user).role \notin RequiredRole(p)
    THEN [to |-> {"/dashboard"}, fetch |-> FALSE]
  ELSE [to |-> null, fetch |-> TRUE]

\* A faulty variant of the render: the profile pages do not look at the role.
RenderAnyRole(p, s, u) ==
  IF s.loading \/ s.user = null THEN "null"
  ELSE IF p = "/dashboard" /\ u.loading THEN "spinner"
  ELSE "content"

\* What a protected page returns from its render over the session s and its
\* own state u: null, the dashboard's spinner, or the page's content.
Render(p, s, u) ==
  IF s.loading \/ s.user = null THEN "null"
  ELSE IF RequiredRole(p) # null /\ The(s.user).role \notin RequiredRole(p)
    THEN "null"
  ELSE IF p = "/dashboard" /\ u.loading THEN "spinner"
  ELSE "content"

\* The component state of a page as its useState calls initialize it: the
\* in-flight flags, the error text, the lists shown, the booking modal and
\* its price field, the chat transcript.
InitialUi(p) ==
  [loading |-> (p = "/dashboard"), bookingSubmitting |-> FALSE, error |-> "",
   bookingsList |-> {}, results |-> {}, bookingModal |-> null,
   bookingPrice |-> "", messages |-> <<>>]

\* The API function each call site invokes.
SiteFn(site) ==
  CASE site = "LoginPage.handleSubmit" -> "auth.login"
    [] site = "RegisterPage.handleSubmit" -> "auth.register"
    [] site = "DashboardPage.load" -> "bookings.list"
    [] site = "DashboardPage.load.worker" -> "workers.getProfile"
    [] site = "DashboardPage.load.tutor" -> "tutors.getProfile"
    [] site = "SearchPage.effect" -> "constants.serviceTypes"
    [] site = "WorkerProfilePage.effect" -> "constants.serviceTypes"
    [] site = "TutorProfilePage.effect" -> "constants.serviceTypes"
    [] site = "WorkerProfilePage.handleSubmit" -> "workers.createProfile"
    [] site = "TutorProfilePage.handleSubmit" -> "tutors.createProfile"
    [] site = "SearchPage.runSearch" -> "providers.search"
    [] site = "SearchPage.handleBook" -> "bookings.create"
    [] site = "DashboardPage.updateBookingStatus" -> "bookings.updateStatus"
    [] site = "DashboardPage.updateBookingStatus.list" -> "bookings.list"
    [] site = "ChatPage.send" -> "chat.send"

\* The generic message a call site shows when the failure carries no detail.
Fallback(site) ==
  CASE site = "LoginPage.handleSubmit" -> "Login failed"
    [] site = "RegisterPage.handleSubmit" -> "Registration failed"
    [] site = "WorkerProfilePage.handleSubmit" -> "Failed to create profile"
    [] site = "TutorProfilePage.handleSubmit" -> "Failed to create profile"
    [] site = "ChatPage.send" -> "Sorry, I couldn't process that. Please try again."

\* err?.response?.data?.detail || fallback
ErrorMessage(err, fallback) ==
  IF err.response # null /\ TruthyString(The(err.response).data.detail)
    THEN The(The(err.response).data.detail)
    ELSE fallback

\* Statuses of failing responses the backend may give.
ErrorStatuses == {401, 500}

\* What may come back for a request of a call site.
Outcomes(site) ==
  (IF SiteFn(site) \in {"auth.login", "auth.register"}
     THEN {Fulfilled(200, [NoData EXCEPT !.user = {u}, !.access_token = {tok}]) :
             u \in Users, tok \in Tokens}
     ELSE {Fulfilled(200, NoData)})
  \cup {Rejected(status) : status \in ErrorStatuses}
  \cup {NetworkError}

\* Contents localStorage may hold when the first tab opens: nothing, an
\* earlier session, or entries that are not what the client writes.
InitialStorages ==
  {EmptyStorage,
   [user |-> {JSONstringify(Worker2)}, token |-> {"tok456"}],
   [user |-> {NotJson}, token |-> {""}]}

\* A booking of Customer1 with Worker2 (api.ts, Booking).
Booking1(status) ==
  [id |-> 1, customer_id |-> 1, provider_id |-> 2, status |-> status]

\* A search result (api.ts, ProviderSearchResult).
Provider2 == [id |-> 2, role |-> "worker", service_type |-> "plumbing"]

\* detail of an error body: missing, empty, or a message.
Details == {null, {""}, {"Not allowed"}}

\* What may come back for a request of a call site when the bodies the pages
\* read are told apart.
PageOutcomes(site) ==
  (CASE SiteFn(site) \in {"auth.login", "auth.register"} ->
          {Fulfilled(200, [NoData EXCEPT !.user = {u}, !.access_token = {"tok123"}]) :
             u \in Users}
     [] SiteFn(site) = "bookings.list" ->
          {Fulfilled(200, [NoData EXCEPT !.bookings = b]) :
             b \in {{}, {Booking1("pending")}, {Booking1("accepted")}}}
     [] SiteFn(site) = "providers.search" ->
          {Fulfilled(200, [NoData EXCEPT !.results = {Provider2}])}
     [] SiteFn(site) = "chat.send" ->
          {Fulfilled(200, [NoData EXCEPT !.reply = {"Try B"}])}
     [] OTHER -> {Fulfilled(200, NoData)})
  \cup (IF site \in {"LoginPage.handleSubmit", "WorkerProfilePage.handleSubmit",
                     "ChatPage.send"}
          THEN {RejectedWith(500, d) : d \in Details}
          ELSE {Rejected(500)})
  \cup {Rejected(401), NetworkError}

\* Contents localStorage may hold when the tab opens, with an earlier
\* session of each role.
PageInitialStorages ==
  {EmptyStorage,
   [user |-> {JSONstringify(Customer1)}, token |-> {"tok456"}],
   [user |-> {JSONstringify(Worker2)}, token |-> {"tok456"}],
   [user |-> {JSONstringify(Tutor3)}, token |-> {"tok456"}]}

VARIABLES
  localStorage,  \* the shared persisted entries
  page,          \* page[t]: the route whose page component tab t shows
  nav,           \* nav[t]: the navigation tab t has been told to make, or null
  session,       \* session[t]: the state of the page's useAuth hook
  pc,            \* pc[t]: "mounted" (initialization effect pending), "guard"
                 \* (guard effect pending), "loading" (dashboard load running),
                 \* "ready", "crashed" (an exception escaped an effect)
  requests,      \* the requests in flight or settled and awaiting their caller
  calls,         \* API function calls made
  sent,          \* requests sent to the backend
  unauthorized,  \* responses with status 401 received
  redirects,     \* times the response interceptor cleared storage and redirected
  lastCommit,    \* the last setUserAndToken whose entries nothing has changed
                 \* since: its tab and arguments, and the calls made before it
  clearedBy,     \* the tab of the last useAuth logout not followed by a commit
  lastInit,      \* what initialization yielded since the entries last changed
  ui,            \* ui[t]: the component state of the page tab t shows
  limit          \* the number of API function calls the behaviour may make

vars == <<localStorage, page, nav, session, pc, requests, calls, sent,
          unauthorized, redirects, lastCommit, clearedBy, lastInit, ui, limit>>

history == <<lastCommit, clearedBy, lastInit>>

counters == <<calls, sent, unauthorized, redirects>>

Init ==
  /\ localStorage \in InitialStorages
  /\ page = [t \in Tabs |-> "/"]
  /\ nav = [t \in Tabs |-> null]
  /\ session = [t \in Tabs |-> InitialSession]
  /\ pc = [t \in Tabs |-> "mounted"]
  /\ requests = {}
  /\ calls = 0
  /\ sent = 0
  /\ unauthorized = 0
  /\ redirects = 0
  /\ lastCommit = null
  /\ clearedBy = null
  /\ lastInit = null
  /\ ui = [t \in Tabs |-> InitialUi("/")]
  /\ limit = MaxCalls

\* The caller's continuation is a microtask of the task that settled the
\* promise: it runs before any other step.
HasSettled == \E r \in requests : r.settled # null

\* The tab's page can take the user's input and run its effects: no
\* continuation is due and the tab is not about to leave the page.
Idle(t) == ~HasSettled /\ nav[t] = null

\* window.location.href = to
Assign(to) == {[to |-> to, hard |-> TRUE]}

\* router.push(to): a client-side transition; a document load already under
\* way wins, and a push to the route already shown changes nothing.
Push(t, to) ==
  IF nav[t] # null /\ The(nav[t]).hard THEN nav[t]
  ELSE IF to = page[t] THEN nav[t]
  ELSE {[to |-> to, hard |-> FALSE]}

\* The request a call site of tab t issues now; user is the session identity
\* the closure of load() holds, arg the status a dashboard button passes,
\* input the form fields the handler read and body the data it sends (null
\* where the model does not follow them).
NewRequest(t, site) ==
  [id |-> calls + 1, tab |-> t, site |-> site,
   config |-> RequestInterceptor(ApiConfig(SiteFn(site)), localStorage),
   user |-> IF site = "DashboardPage.load" THEN session[t].user ELSE null,
   arg |-> null,
   input |-> null,
   body |-> null,
   orphan |-> FALSE,
   received |-> null, settled |-> null]

\* A call of an API function: the request passes the outbound interceptor
\* and is sent.
Send(t, site) ==
  /\ calls < limit
  /\ requests' = requests \cup {NewRequest(t, site)}
  /\ calls' = calls + 1
  /\ sent' = sent + 1

\* The page of route p calls useAuth (the chat page does not).
UsesAuth(p) == p # "/chat"

\* The page component of route p is mounted in tab t. A document load drops
\* the tab's requests; a client-side transition leaves them running without
\* their page.
Mount(t, p, hard) ==
  /\ page' = [page EXCEPT ![t] = p]
  /\ nav' = [nav EXCEPT ![t] = null]
  /\ session' = [session EXCEPT ![t] = InitialSession]
  /\ ui' = [ui EXCEPT ![t] = InitialUi(p)]
  /\ pc' = [pc EXCEPT ![t] = IF UsesAuth(p) THEN "mounted" ELSE "ready"]
  /\ requests' = IF hard THEN {r \in requests : r.tab # t}
                 ELSE {IF r.tab = t THEN [r EXCEPT !.orphan = TRUE] ELSE r :
                         r \in requests}
  /\ UNCHANGED <<localStorage, counters, history, limit>>

\* The navigation the tab was told to make happens.
Load(t) ==
  /\ nav[t] # null
  /\ ~HasSettled
  /\ Mount(t, The(nav[t]).to, The(nav[t]).hard)

\* The user opens a route in the tab (address bar, reload).
OpenPage(t, p) ==
  /\ Idle(t)
  /\ Mount(t, p, TRUE)

\* The effects of the first commit run after the first render: useAuth's
\* initialization effect, then the page's guard effect, which still sees
\* the session of that render.
Initialize(t) ==
  /\ pc[t] = "mounted"
  /\ Idle(t)
  /\ LET res == InitEffect(session[t], localStorage)
         g == GuardEffect(page[t], session[t])
     IN /\ session' = [session EXCEPT ![t] = [user |-> res.user, loading |-> res.loading]]
        /\ localStorage' = res.localStorage
        /\ pc' = [pc EXCEPT ![t] =
                    IF res.threw THEN "crashed"
                    ELSE IF page[t] \in GuardedPages THEN "guard" ELSE "ready"]
        /\ nav' = IF page[t] \in GuardedPages /\ g.to # null
                    THEN [nav EXCEPT ![t] = Push(t, The(g.to))]
                    ELSE nav
        /\ lastInit' = {res.user}
  /\ UNCHANGED <<page, requests, counters, lastCommit, clearedBy, ui, limit>>

\* The entries changed: what was committed or restored before no longer stands.
ForgetIfChanged(ls) ==
  /\ lastCommit' = IF ls = localStorage THEN lastCommit ELSE null
  /\ lastInit' = IF ls = localStorage THEN lastInit ELSE null

\* DashboardPage's guard effect, run again once the session has loaded:
\* redirect, or start load().
DashboardGuard(t) ==
  /\ page[t] = "/dashboard"
  /\ pc[t] = "guard"
  /\ Idle(t)
  /\ LET g == GuardEffect(page[t], session[t])
     IN IF g.fetch
          THEN /\ Send(t, GuardSite(page[t]))
               /\ pc' = [pc EXCEPT ![t] = "loading"]
               /\ UNCHANGED <<nav, unauthorized, redirects>>
          ELSE /\ nav' = IF g.to = null THEN nav
                         ELSE [nav EXCEPT ![t] = Push(t, The(g.to))]
               /\ pc' = [pc EXCEPT ![t] = "ready"]
               /\ UNCHANGED <<requests, counters>>
  /\ UNCHANGED <<localStorage, page, session, history, ui, limit>>

\* SearchPage's guard effect: redirect, or fetch the service types.
SearchGuard(t) ==
  /\ page[t] = "/search"
  /\ pc[t] = "guard"
  /\ Idle(t)
  /\ LET g == GuardEffect(page[t], session[t])
     IN IF g.fetch
          THEN /\ Send(t, GuardSite(page[t]))
               /\ UNCHANGED <<nav, unauthorized, redirects>>
          ELSE /\ nav' = IF g.to = null THEN nav
                         ELSE [nav EXCEPT ![t] = Push(t, The(g.to))]
               /\ UNCHANGED <<requests, counters>>
  /\ pc' = [pc EXCEPT ![t] = "ready"]
  /\ UNCHANGED <<localStorage, page, session, history, ui, limit>>

\* TutorProfilePage reads price and setPrice, which the component declares
\* nowhere: where the name does not resolve, the render that reaches the
\* form raises ReferenceError. Both cases are admitted.
NameResolves(p) ==
  IF p = "/dashboard/tutor-profile" THEN BOOLEAN ELSE {TRUE}

\* The guard effect of WorkerProfilePage and TutorProfilePage: redirect to
\* /login or to /dashboard, or fetch the service types.
ProfileGuard(t) ==
  /\ page[t] \in {"/dashboard/worker-profile", "/dashboard/tutor-profile"}
  /\ pc[t] = "guard"
  /\ Idle(t)
  /\ LET g == GuardEffect(page[t], session[t])
     IN IF g.fetch
          THEN \E resolves \in NameResolves(page[t]) :
                 IF resolves
                   THEN /\ Send(t, GuardSite(page[t]))
                        /\ pc' = [pc EXCEPT ![t] = "ready"]
                        /\ UNCHANGED <<nav, unauthorized, redirects>>
                   ELSE /\ pc' = [pc EXCEPT ![t] = "crashed"]
                        /\ UNCHANGED <<nav, requests, counters>>
          ELSE /\ nav' = IF g.to = null THEN nav
                         ELSE [nav EXCEPT ![t] = Push(t, The(g.to))]
               /\ pc' = [pc EXCEPT ![t] = "ready"]
               /\ UNCHANGED <<requests, counters>>
  /\ UNCHANGED <<localStorage, page, session, history, ui, limit>>

\* disabled={loading}: the page's submit, search or send control is disabled.
Submitting(t) == ui[t].loading

\* The page shows its controls: its effects have run and, on a protected
\* page, the render returned the content.
Shown(t) ==
  /\ pc[t] = "ready"
  /\ Idle(t)
  /\ page[t] \in GuardedPages => Render(page[t], session[t], ui[t]) = "content"

\* A form's handleSubmit up to its await: setError(""), setLoading(true),
\* the call.
FormSubmit(t, site) ==
  /\ Shown(t)
  /\ ~Submitting(t)
  /\ Send(t, site)
  /\ ui' = [ui EXCEPT ![t].error = "", ![t].loading = TRUE]
  /\ UNCHANGED <<localStorage, page, nav, session, pc, unauthorized, redirects,
                 history, limit>>

\* LoginPage.handleSubmit up to its await.
LoginSubmit(t) ==
  /\ page[t] = "/login"
  /\ FormSubmit(t, "LoginPage.handleSubmit")

\* RegisterPage.handleSubmit up to its await.
RegisterSubmit(t) ==
  /\ page[t] = "/register"
  /\ FormSubmit(t, "RegisterPage.handleSubmit")

\* JavaScript values passed to the API functions: undefined, a File, a
\* number (by its decimal text).
Undefined == [type |-> "undefined", text |-> ""]

FileValue(name) == [type |-> "file", text |-> name]

NumberValue(text) == [type |-> "number", text |-> text]

\* String(v)
String(v) ==
  CASE v.type = "undefined" -> "undefined"
    [] v.type = "file" -> "[object File]"
    [] v.type = "number" -> v.text

\* if (v): undefined is falsy, a File is truthy.
Truthy(v) == v.type = "file"

\* workers.createProfile(serviceType, price, idDocument?): the FormData it
\* posts; an argument that is not passed is undefined.
workersCreateProfile(serviceType, price, idDocument) ==
  [service_type |-> serviceType,
   price |-> String(price),
   id_document |-> IF Truthy(idDocument) THEN {idDocument.text} ELSE null]

\* What the fields of the worker profile form may hold on submit: a service
\* of the select, a price that passes the number input's validation, and no
\* file or one.
ServiceTypes == {"plumbing", "cleaning"}

WorkerPrices == {"80", "250"}

IdDocuments == {null, {"id.pdf"}}

\* workers.createProfile(serviceType, idDocument || undefined) as the page
\* calls it: the second argument binds to the parameter price and the third
\* parameter is not passed.
WorkerCreateCall(serviceType, price, idDocument) ==
  workersCreateProfile(serviceType,
                       IF idDocument # null THEN FileValue(The(idDocument))
                       ELSE Undefined,
                       Undefined)

\* WorkerProfilePage.handleSubmit up to its await.
WorkerSubmit(t) ==
  /\ page[t] = "/dashboard/worker-profile"
  /\ Shown(t)
  /\ ~Submitting(t)
  /\ calls < limit
  /\ \E serviceType \in ServiceTypes, price \in WorkerPrices,
        idDocument \in IdDocuments :
       requests' = requests \cup
         {[NewRequest(t, "WorkerProfilePage.handleSubmit") EXCEPT
             !.input = {[serviceType |-> serviceType, price |-> price,
                         idDocument |-> idDocument]},
             !.body = {WorkerCreateCall(serviceType, price, idDocument)}]}
  /\ calls' = calls + 1
  /\ sent' = sent + 1
  /\ ui' = [ui EXCEPT ![t].error = "", ![t].loading = TRUE]
  /\ UNCHANGED <<localStorage, page, nav, session, pc, unauthorized, redirects,
                 history, limit>>

\* Texts a price field may hold.
PriceTexts == {"", "abc", "-5", "0", "250"}

\* parseFloat on those texts.
parseFloat(text) ==
  CASE text = "-5" -> [nan |-> FALSE, value |-> 0 - 5]
    [] text = "0" -> [nan |-> FALSE, value |-> 0]
    [] text = "250" -> [nan |-> FALSE, value |-> 250]
    [] OTHER -> [nan |-> TRUE, value |-> 0]

\* A faulty variant: the early return leaves before the finally clause runs.
TutorSubmitLeavesFlag(t) ==
  /\ page[t] = "/dashboard/tutor-profile"
  /\ \E price \in PriceTexts :
       LET priceNum == parseFloat(price)
       IN IF priceNum.nan \/ priceNum.value < 0
            THEN /\ Shown(t)
                 /\ ~Submitting(t)
                 /\ ui' = [ui EXCEPT ![t].error = "Please enter a valid price",
                                     ![t].loading = TRUE]
                 /\ UNCHANGED <<localStorage, page, nav, session, pc, requests,
                                counters, history, limit>>
            ELSE FormSubmit(t, "TutorProfilePage.handleSubmit")

\* TutorProfilePage.handleSubmit up to its await, or to its early return on
\* a price that is not a number or is negative (the finally clause runs).
TutorSubmit(t) ==
  /\ page[t] = "/dashboard/tutor-profile"
  /\ \E price \in PriceTexts :
       LET priceNum == parseFloat(price)
       IN IF priceNum.nan \/ priceNum.value < 0
            THEN /\ Shown(t)
                 /\ ~Submitting(t)
                 /\ ui' = [ui EXCEPT ![t].error = "Please enter a valid price",
                                     ![t].loading = FALSE]
                 /\ UNCHANGED <<localStorage, page, nav, session, pc, requests,
                                counters, history, limit>>
            ELSE FormSubmit(t, "TutorProfilePage.handleSubmit")

\* A faulty variant: a 401 clears the entries only when the request carried
\* the credential that is stored now.
RespondTiedToCredential(r, outcome) ==
  /\ r \in requests
  /\ r.received = null
  /\ ~HasSettled
  /\ LET res == IF r.config = RequestInterceptor(ApiConfig(SiteFn(r.site)), localStorage)
                  THEN ResponseInterceptor(outcome, localStorage)
                  ELSE [ResponseInterceptor(outcome, localStorage) EXCEPT
                          !.localStorage = localStorage]
     IN /\ requests' = (requests \ {r}) \cup
                         {[r EXCEPT !.received = {outcome}, !.settled = {res.settled}]}
        /\ localStorage' = res.localStorage
        /\ nav' = IF res.href = null THEN nav
                  ELSE [nav EXCEPT ![r.tab] = Assign(The(res.href))]
        /\ sent' = sent + res.resent
        /\ unauthorized' = unauthorized + (IF IsUnauthorized(outcome) THEN 1 ELSE 0)
        /\ redirects' = redirects + (IF res.href = null THEN 0 ELSE 1)
        /\ ForgetIfChanged(res.localStorage)
  /\ UNCHANGED <<page, session, pc, calls, clearedBy, ui, limit>>

\* An outcome arrives for request r and passes the response interceptors.
Respond(r, outcome) ==
  /\ r \in requests
  /\ r.received = null
  /\ ~HasSettled
  /\ LET res == ResponseInterceptor(outcome, localStorage)
     IN /\ requests' = (requests \ {r}) \cup
                         {[r EXCEPT !.received = {outcome}, !.settled = {res.settled}]}
        /\ localStorage' = res.localStorage
        /\ nav' = IF res.href = null THEN nav
                  ELSE [nav EXCEPT ![r.tab] = Assign(The(res.href))]
        /\ sent' = sent + res.resent
        /\ unauthorized' = unauthorized + (IF IsUnauthorized(outcome) THEN 1 ELSE 0)
        /\ redirects' = redirects + (IF res.href = null THEN 0 ELSE 1)
        /\ ForgetIfChanged(res.localStorage)
  /\ UNCHANGED <<page, session, pc, calls, clearedBy, ui, limit>>

\* The settlement of r is a fulfilment / its response body.
Succeeded(r) == The(r.settled).kind = "fulfilled"

Data(r) == The(The(r.settled).response).data

\* The component state after the page of r has set it to u; the setters of
\* a component that is no longer mounted change nothing.
SetUi(r, u) == IF r.orphan THEN ui ELSE [ui EXCEPT ![r.tab] = u]

\* The request a continuation of r issues.
FollowUp(r, site) == [NewRequest(r.tab, site) EXCEPT !.orphan = r.orphan]

\* A faulty variant: on success the page goes to the dashboard without
\* handing the identity and the credential to setUserAndToken.
SubmitContinueSkipsCommit(r) ==
  /\ r \in requests
  /\ r.settled # null
  /\ r.site \in {"LoginPage.handleSubmit", "RegisterPage.handleSubmit"}
  /\ requests' = requests \ {r}
  /\ IF Succeeded(r)
       THEN /\ nav' = [nav EXCEPT ![r.tab] = Assign("/dashboard")]
            /\ ui' = SetUi(r, [ui[r.tab] EXCEPT !.loading = FALSE])
       ELSE /\ nav' = nav
            /\ ui' = SetUi(r, [ui[r.tab] EXCEPT
                                 !.error = ErrorMessage(The(r.settled), Fallback(r.site)),
                                 !.loading = FALSE])
  /\ UNCHANGED <<localStorage, page, session, pc, counters, history, limit>>

\* The rest of LoginPage.handleSubmit / RegisterPage.handleSubmit after the
\* await: commit and go to the dashboard, or show the error; then
\* setLoading(false).
SubmitContinue(r) ==
  /\ r \in requests
  /\ r.settled # null
  /\ r.site \in {"LoginPage.handleSubmit", "RegisterPage.handleSubmit"}
  /\ requests' = requests \ {r}
  /\ IF Succeeded(r)
       THEN LET data == Data(r)
                res == setUserAndToken(session[r.tab], localStorage,
                                       The(data.user), The(data.access_token))
            IN /\ session' = IF r.orphan THEN session
                             ELSE [session EXCEPT ![r.tab] =
                                     [user |-> res.user, loading |-> res.loading]]
               /\ localStorage' = res.localStorage
               /\ nav' = [nav EXCEPT ![r.tab] = Assign("/dashboard")]
               /\ lastCommit' = {[tab |-> r.tab, user |-> The(data.user),
                                  token |-> The(data.access_token),
                                  calls |-> calls]}
               /\ clearedBy' = null
               /\ lastInit' = null
               /\ ui' = SetUi(r, [ui[r.tab] EXCEPT !.loading = FALSE])
       ELSE /\ ui' = SetUi(r, [ui[r.tab] EXCEPT
                                 !.error = ErrorMessage(The(r.settled), Fallback(r.site)),
                                 !.loading = FALSE])
            /\ UNCHANGED <<session, localStorage, nav, history>>
  /\ UNCHANGED <<page, pc, counters, limit>>

\* The rest of the profile pages' handleSubmit after the await: go to the
\* dashboard (the worker page by router.push, the tutor page by a document
\* load), or show the error; then setLoading(false).
ProfileSubmitContinue(r) ==
  /\ r \in requests
  /\ r.settled # null
  /\ r.site \in {"WorkerProfilePage.handleSubmit", "TutorProfilePage.handleSubmit"}
  /\ requests' = requests \ {r}
  /\ IF Succeeded(r)
       THEN /\ nav' = [nav EXCEPT ![r.tab] =
                         IF r.site = "WorkerProfilePage.handleSubmit"
                           THEN Push(r.tab, "/dashboard")
                           ELSE Assign("/dashboard")]
            /\ ui' = SetUi(r, [ui[r.tab] EXCEPT !.loading = FALSE])
       ELSE /\ nav' = nav
            /\ ui' = SetUi(r, [ui[r.tab] EXCEPT
                                 !.error = ErrorMessage(The(r.settled), Fallback(r.site)),
                                 !.loading = FALSE])
  /\ UNCHANGED <<localStorage, page, session, pc, counters, history, limit>>

\* The rest of DashboardPage's load() after bookings.list settles.
DashboardLoadContinue(r) ==
  /\ r \in requests
  /\ r.settled # null
  /\ r.site = "DashboardPage.load"
  /\ IF Succeeded(r)
       THEN /\ nav' = nav
            /\ ui' = SetUi(r, [ui[r.tab] EXCEPT !.bookingsList = Data(r).bookings,
                                                !.loading = FALSE])
            /\ IF The(r.user).role = "worker"
                 THEN /\ calls < limit
                      /\ requests' = (requests \ {r}) \cup
                                       {FollowUp(r, "DashboardPage.load.worker")}
                      /\ calls' = calls + 1
                      /\ sent' = sent + 1
               ELSE IF The(r.user).role = "tutor"
                 THEN /\ calls < limit
                      /\ requests' = (requests \ {r}) \cup
                                       {FollowUp(r, "DashboardPage.load.tutor")}
                      /\ calls' = calls + 1
                      /\ sent' = sent + 1
               ELSE /\ requests' = requests \ {r}
                    /\ UNCHANGED <<calls, sent>>
       ELSE /\ nav' = [nav EXCEPT ![r.tab] = Push(r.tab, "/login")]
            /\ ui' = SetUi(r, [ui[r.tab] EXCEPT !.loading = FALSE])
            /\ requests' = requests \ {r}
            /\ UNCHANGED <<calls, sent>>
  /\ pc' = IF r.orphan THEN pc ELSE [pc EXCEPT ![r.tab] = "ready"]
  /\ UNCHANGED <<localStorage, page, session, unauthorized, redirects, history, limit>>

\* Call sites whose handlers only store the data or swallow the failure.
FetchContinue(r) ==
  /\ r \in requests
  /\ r.settled # null
  /\ r.site \in {"DashboardPage.load.worker", "DashboardPage.load.tutor",
                 "SearchPage.effect", "WorkerProfilePage.effect",
                 "TutorProfilePage.effect"}
  /\ requests' = requests \ {r}
  /\ UNCHANGED <<localStorage, page, nav, session, pc, counters, history, ui, limit>>

\* Selections of the search form: no service chosen, or one.
Selections == {"", "plumbing"}

\* runSearch() up to its await, with the form's selection; without a
\* selection it clears the results and returns: the component state
\* afterwards and whether providers.search is called.
runSearch(u, selected) ==
  IF selected # ""
    THEN [ui |-> [u EXCEPT !.loading = TRUE], call |-> TRUE]
    ELSE [ui |-> [u EXCEPT !.results = {}, !.loading = FALSE], call |-> FALSE]

\* The Search button of SearchPage.
RunSearch(t) ==
  /\ page[t] = "/search"
  /\ Shown(t)
  /\ ~Submitting(t)
  /\ \E selected \in Selections :
       LET run == runSearch(ui[t], selected)
       IN /\ ui' = [ui EXCEPT ![t] = run.ui]
          /\ IF run.call
               THEN Send(t, "SearchPage.runSearch")
               ELSE UNCHANGED <<requests, calls, sent>>
  /\ UNCHANGED <<localStorage, page, nav, session, pc, unauthorized, redirects,
                 history, limit>>

\* The rest of runSearch() after the await.
SearchContinue(r) ==
  /\ r \in requests
  /\ r.settled # null
  /\ r.site = "SearchPage.runSearch"
  /\ requests' = requests \ {r}
  /\ ui' = SetUi(r, [ui[r.tab] EXCEPT
                       !.results = IF Succeeded(r) THEN Data(r).results ELSE {},
                       !.loading = FALSE])
  /\ UNCHANGED <<localStorage, page, nav, session, pc, counters, history, limit>>

\* The Book button of a search result, shown to customers: the modal opens
\* on the provider, its price field on String(p.price) or, as a search
\* result carries no price, empty.
OpenBooking(t) ==
  /\ page[t] = "/search"
  /\ Shown(t)
  /\ The(session[t].user).role = "customer"
  /\ \E p \in ui[t].results :
       /\ ui[t].bookingModal # {p}
       /\ ui' = [ui EXCEPT ![t].bookingModal = {p}, ![t].bookingPrice = ""]
  /\ UNCHANGED <<localStorage, page, nav, session, pc, requests, counters,
                 history, limit>>

\* The Cancel button of the booking modal.
CloseBooking(t) ==
  /\ page[t] = "/search"
  /\ Shown(t)
  /\ ui[t].bookingModal # null
  /\ ui' = [ui EXCEPT ![t].bookingModal = null]
  /\ UNCHANGED <<localStorage, page, nav, session, pc, requests, counters,
                 history, limit>>

\* The booking modal is rendered: a provider is selected and the user is a
\* customer.
ModalShown(t) ==
  /\ page[t] = "/search"
  /\ Shown(t)
  /\ ui[t].bookingModal # null
  /\ The(session[t].user).role = "customer"

\* The price field of the booking modal (onChange).
TypeBookingPrice(t) ==
  /\ ModalShown(t)
  /\ \E text \in PriceTexts :
       /\ text # ui[t].bookingPrice
       /\ ui' = [ui EXCEPT ![t].bookingPrice = text]
  /\ UNCHANGED <<localStorage, page, nav, session, pc, requests, counters,
                 history, limit>>

\* handleBook's checks of the price text: not empty, a number, above 0.
BookingPriceValid(text) ==
  /\ text # ""
  /\ ~parseFloat(text).nan
  /\ parseFloat(text).value > 0

\* bookings.create(provider_id, service_type, total_price, subject): the
\* JSON body it posts for the provider of the modal.
bookingsCreate(provider, price) ==
  [provider_id |-> provider.id,
   service_type |-> IF provider.role = "tutor" THEN "tutor" ELSE provider.service_type,
   total_price |-> price]

\* A faulty variant of handleBook: a price of 0 passes.
handleBookAllowsZero(u, user) ==
  IF u.bookingModal = null \/ u.bookingPrice = ""
     \/ user = null \/ The(user).role # "customer"
    THEN [ui |-> u, call |-> FALSE, body |-> null]
  ELSE IF parseFloat(u.bookingPrice).nan \/ parseFloat(u.bookingPrice).value < 0
    THEN [ui |-> u, call |-> FALSE, body |-> null]
  ELSE [ui |-> [u EXCEPT !.bookingSubmitting = TRUE], call |-> TRUE,
        body |-> {bookingsCreate(The(u.bookingModal),
                                 parseFloat(u.bookingPrice).value)}]

\* handleBook up to its await, over the component state u and the session
\* identity: it returns before setBookingSubmitting(true) when a check
\* fails; the component state afterwards, whether bookings.create is called
\* and with what body.
handleBook(u, user) ==
  IF u.bookingModal = null \/ u.bookingPrice = ""
     \/ user = null \/ The(user).role # "customer"
    THEN [ui |-> u, call |-> FALSE, body |-> null]
  ELSE IF parseFloat(u.bookingPrice).nan \/ parseFloat(u.bookingPrice).value <= 0
    THEN [ui |-> u, call |-> FALSE, body |-> null]
  ELSE [ui |-> [u EXCEPT !.bookingSubmitting = TRUE], call |-> TRUE,
        body |-> {bookingsCreate(The(u.bookingModal),
                                 parseFloat(u.bookingPrice).value)}]

\* The Send request button of the booking modal, disabled while a booking
\* is being sent.
HandleBook(t) ==
  /\ ModalShown(t)
  /\ ~ui[t].bookingSubmitting
  /\ LET book == handleBook(ui[t], session[t].user)
     IN /\ ui' = [ui EXCEPT ![t] = book.ui]
        /\ IF book.call
             THEN /\ calls < limit
                  /\ requests' = requests \cup
                       {[NewRequest(t, "SearchPage.handleBook") EXCEPT
                           !.input = {[bookingModal |-> ui[t].bookingModal,
                                       bookingPrice |-> ui[t].bookingPrice]},
                           !.body = book.body]}
                  /\ calls' = calls + 1
                  /\ sent' = sent + 1
             ELSE UNCHANGED <<requests, calls, sent>>
  /\ UNCHANGED <<localStorage, page, nav, session, pc, unauthorized, redirects,
                 history, limit>>

\* The rest of handleBook after the await: close the modal, empty the price
\* field and search again, or log the failure; then
\* setBookingSubmitting(false).
HandleBookContinue(r) ==
  /\ r \in requests
  /\ r.settled # null
  /\ r.site = "SearchPage.handleBook"
  /\ IF Succeeded(r)
       THEN \E selected \in Selections :
              LET run == runSearch([ui[r.tab] EXCEPT !.bookingModal = null,
                                                    !.bookingPrice = ""],
                                   selected)
              IN /\ ui' = SetUi(r, [run.ui EXCEPT !.bookingSubmitting = FALSE])
                 /\ IF run.call
                      THEN /\ calls < limit
                           /\ requests' = (requests \ {r}) \cup
                                            {FollowUp(r, "SearchPage.runSearch")}
                           /\ calls' = calls + 1
                           /\ sent' = sent + 1
                      ELSE /\ requests' = requests \ {r}
                           /\ UNCHANGED <<calls, sent>>
       ELSE /\ ui' = SetUi(r, [ui[r.tab] EXCEPT !.bookingSubmitting = FALSE])
            /\ requests' = requests \ {r}
            /\ UNCHANGED <<calls, sent>>
  /\ UNCHANGED <<localStorage, page, nav, session, pc, unauthorized, redirects,
                 history, limit>>

\* A faulty variant: Mark completed is offered whatever the status is.
StatusButtonsAnyStatus(user, b) ==
  (IF user.role # "customer" /\ b.provider_id = user.id /\ b.status = "pending"
     THEN {"accepted", "cancelled"} ELSE {})
  \cup (IF b.customer_id = user.id \/ b.provider_id = user.id
          THEN {"completed"} ELSE {})

\* The buttons the dashboard shows for booking b to user: Accept and Reject
\* set accepted and cancelled, Mark completed sets completed.
StatusButtons(user, b) ==
  (IF user.role # "customer" /\ b.provider_id = user.id /\ b.status = "pending"
     THEN {"accepted", "cancelled"} ELSE {})
  \cup (IF (b.customer_id = user.id \/ b.provider_id = user.id) /\ b.status = "accepted"
          THEN {"completed"} ELSE {})

\* updateBookingStatus up to its first await; the buttons carry no disabled
\* attribute. The request keeps the booking as the list held it (input) and
\* the status asked for (arg).
UpdateBookingStatus(t) ==
  /\ page[t] = "/dashboard"
  /\ Shown(t)
  /\ calls < limit
  /\ \E b \in ui[t].bookingsList :
       \E status \in StatusButtons(The(session[t].user), b) :
         requests' = requests \cup
           {[NewRequest(t, "DashboardPage.updateBookingStatus") EXCEPT
               !.arg = {status}, !.input = {b}]}
  /\ calls' = calls + 1
  /\ sent' = sent + 1
  /\ UNCHANGED <<localStorage, page, nav, session, pc, unauthorized, redirects,
                 history, ui, limit>>

\* updateBookingStatus after bookings.updateStatus settles: list the
\* bookings again, or log the failure.
UpdateContinue(r) ==
  /\ r \in requests
  /\ r.settled # null
  /\ r.site = "DashboardPage.updateBookingStatus"
  /\ IF Succeeded(r)
       THEN /\ calls < limit
            /\ requests' = (requests \ {r}) \cup
                             {FollowUp(r, "DashboardPage.updateBookingStatus.list")}
            /\ calls' = calls + 1
            /\ sent' = sent + 1
       ELSE /\ requests' = requests \ {r}
            /\ UNCHANGED <<calls, sent>>
  /\ UNCHANGED <<localStorage, page, nav, session, pc, unauthorized, redirects,
                 history, ui, limit>>

\* updateBookingStatus after bookings.list settles.
UpdateListContinue(r) ==
  /\ r \in requests
  /\ r.settled # null
  /\ r.site = "DashboardPage.updateBookingStatus.list"
  /\ requests' = requests \ {r}
  /\ ui' = IF Succeeded(r)
             THEN SetUi(r, [ui[r.tab] EXCEPT !.bookingsList = Data(r).bookings])
             ELSE ui
  /\ UNCHANGED <<localStorage, page, nav, session, pc, counters, history, limit>>

\* Texts the chat input may hold.
ChatTexts == {"", "  ", "hello", " hello "}

\* text.trim() on those texts.
trim(text) ==
  CASE text = "  " -> ""
    [] text = " hello " -> "hello"
    [] OTHER -> text

\* chat.send(message, conversation_history): the JSON body it posts.
chatSend(message, conversation_history) ==
  [message |-> message, conversation_history |-> conversation_history]

\* A faulty variant of send: it does not look at loading.
sendIgnoresLoading(u, input) ==
  LET text == trim(input)
      userMsg == [role |-> "user", content |-> text]
  IN IF text = ""
       THEN [ui |-> u, call |-> FALSE, body |-> null]
       ELSE [ui |-> [u EXCEPT !.messages = Append(@, userMsg), !.loading = TRUE],
             call |-> TRUE,
             body |-> {chatSend(text, Append(u.messages, userMsg))}]

\* ChatPage.send up to its await, over the component state u and the text
\* of the input: it returns at once on a blank text or while a message is
\* being sent; the component state afterwards, whether chat.send is called
\* and with what body.
send(u, input) ==
  LET text == trim(input)
      userMsg == [role |-> "user", content |-> text]
  IN IF text = "" \/ u.loading
       THEN [ui |-> u, call |-> FALSE, body |-> null]
       ELSE [ui |-> [u EXCEPT !.messages = Append(@, userMsg), !.loading = TRUE],
             call |-> TRUE,
             body |-> {chatSend(text, Append(u.messages, userMsg))}]

\* The Send button and the Enter key of the chat page.
ChatSend(t) ==
  /\ page[t] = "/chat"
  /\ Shown(t)
  /\ \E input \in ChatTexts :
       LET run == send(ui[t], input)
       IN /\ ui' = [ui EXCEPT ![t] = run.ui]
          /\ IF run.call
               THEN /\ calls < limit
                    /\ requests' = requests \cup
                         {[NewRequest(t, "ChatPage.send") EXCEPT !.body = run.body]}
                    /\ calls' = calls + 1
                    /\ sent' = sent + 1
               ELSE UNCHANGED <<requests, calls, sent>>
  /\ UNCHANGED <<localStorage, page, nav, session, pc, unauthorized, redirects,
                 history, limit>>

\* The rest of ChatPage.send after the await: append the reply, or the
\* failure's detail or the generic message; then setLoading(false).
ChatContinue(r) ==
  /\ r \in requests
  /\ r.settled # null
  /\ r.site = "ChatPage.send"
  /\ requests' = requests \ {r}
  /\ ui' = SetUi(r, [ui[r.tab] EXCEPT
                       !.messages = Append(@,
                         [role |-> "assistant",
                          content |-> IF Succeeded(r) THEN The(Data(r).reply)
                                      ELSE ErrorMessage(The(r.settled), Fallback(r.site))]),
                       !.loading = FALSE])
  /\ UNCHANGED <<localStorage, page, nav, session, pc, counters, history, limit>>

\* A faulty variant of the home page's logout: the sessions of all tabs
\* drop the identity, as if the tabs listened to the change of the storage.
HomeLogoutReachesAllTabs(t) ==
  /\ page[t] = "/"
  /\ pc[t] = "ready"
  /\ session[t].user # null
  /\ Idle(t)
  /\ session' = [o \in Tabs |-> [session[o] EXCEPT !.user = null]]
  /\ localStorage' = logout(session[t], localStorage).localStorage
  /\ nav' = [nav EXCEPT ![t] = Assign("/login")]
  /\ clearedBy' = {t}
  /\ lastCommit' = null
  /\ lastInit' = null
  /\ UNCHANGED <<page, pc, requests, counters, ui, limit>>

\* The Logout button of the home page (NavLoggedIn): useAuth's logout, then
\* a document load of /login.
HomeLogout(t) ==
  /\ page[t] = "/"
  /\ pc[t] = "ready"
  /\ session[t].user # null
  /\ Idle(t)
  /\ LET res == logout(session[t], localStorage)
     IN /\ session' = [session EXCEPT ![t] = [user |-> res.user, loading |-> res.loading]]
        /\ localStorage' = res.localStorage
  /\ nav' = [nav EXCEPT ![t] = Assign("/login")]
  /\ clearedBy' = {t}
  /\ lastCommit' = null
  /\ lastInit' = null
  /\ UNCHANGED <<page, pc, requests, counters, ui, limit>>

\* A faulty variant of the pages' logout: the identity entry is left behind.
PageLogoutKeepsUser(t) ==
  /\ page[t] \in {"/dashboard", "/search"}
  /\ Shown(t)
  /\ localStorage' = removeItem(localStorage, "token")
  /\ nav' = [nav EXCEPT ![t] = Push(t, "/login")]
  /\ ForgetIfChanged(removeItem(localStorage, "token"))
  /\ UNCHANGED <<page, session, pc, requests, counters, clearedBy, ui, limit>>

\* The Logout button of the dashboard and search pages.
PageLogout(t) ==
  /\ page[t] \in {"/dashboard", "/search"}
  /\ Shown(t)
  /\ localStorage' = removeItem(removeItem(localStorage, "token"), "user")
  /\ nav' = [nav EXCEPT ![t] = Push(t, "/login")]
  /\ ForgetIfChanged(removeItem(removeItem(localStorage, "token"), "user"))
  /\ UNCHANGED <<page, session, pc, requests, counters, clearedBy, ui, limit>>

Next ==
  \/ \E t \in Tabs :
       \/ Load(t)
       \/ \E p \in Pages : OpenPage(t, p)
       \/ Initialize(t)
       \/ DashboardGuard(t)
       \/ SearchGuard(t)
       \/ LoginSubmit(t)
       \/ RegisterSubmit(t)
       \/ HomeLogout(t)
       \/ PageLogout(t)
  \/ \E r \in requests :
       \/ \E outcome \in Outcomes(r.site) : Respond(r, outcome)
       \/ SubmitContinue(r)
       \/ DashboardLoadContinue(r)
       \/ FetchContinue(r)

Spec == Init /\ [][Next]_vars

\* The same browser opened on a storage that holds neither entry.
InitFromEmpty == Init /\ localStorage = EmptyStorage

SpecFromEmpty == InitFromEmpty /\ [][Next]_vars

\* One tab alone, with every page of the application and the response
\* bodies told apart.
PageInit ==
  /\ localStorage \in PageInitialStorages
  /\ page = [t \in Tabs |-> "/"]
  /\ nav = [t \in Tabs |-> null]
  /\ session = [t \in Tabs |-> InitialSession]
  /\ pc = [t \in Tabs |-> "mounted"]
  /\ requests = {}
  /\ calls = 0
  /\ sent = 0
  /\ unauthorized = 0
  /\ redirects = 0
  /\ lastCommit = null
  /\ clearedBy = null
  /\ lastInit = null
  /\ ui = [t \in Tabs |-> InitialUi("/")]
  /\ limit = MaxPageCalls

PageNext ==
  \/ \E t \in PageTabs :
       \/ Load(t)
       \/ \E p \in AllPages : OpenPage(t, p)
       \/ Initialize(t)
       \/ DashboardGuard(t)
       \/ SearchGuard(t)
       \/ ProfileGuard(t)
       \/ LoginSubmit(t)
       \/ RegisterSubmit(t)
       \/ WorkerSubmit(t)
       \/ TutorSubmit(t)
       \/ RunSearch(t)
       \/ OpenBooking(t)
       \/ CloseBooking(t)
       \/ TypeBookingPrice(t)
       \/ HandleBook(t)
       \/ UpdateBookingStatus(t)
       \/ ChatSend(t)
       \/ HomeLogout(t)
       \/ PageLogout(t)
  \/ \E r \in requests :
       \/ \E outcome \in PageOutcomes(r.site) : Respond(r, outcome)
       \/ SubmitContinue(r)
       \/ ProfileSubmitContinue(r)
       \/ DashboardLoadContinue(r)
       \/ FetchContinue(r)
       \/ SearchContinue(r)
       \/ HandleBookContinue(r)
       \/ UpdateContinue(r)
       \/ UpdateListContinue(r)
       \/ ChatContinue(r)

PageSpec == PageInit /\ [][PageNext]_vars

\* An identity entry that parses to an object the backend's User type does
\* not describe: the text under the "user" key is whatever was last written
\* there, by this client or by anything else with access to the storage.
Admin9 ==
  [id |-> 9, name |-> "D", email |-> "d@urban.test", role |-> "admin",
   trust_score |-> 0, created_at |-> "2024-04-04"]

\* Contents localStorage may hold when the tab opens, entries the client
\* did not write included.
AnyInitialStorages ==
  PageInitialStorages \cup {[user |-> {JSONstringify(Admin9)}, token |-> {"tok456"}]}

\* One tab alone over any parseable identity entry.
AnyStorageInit ==
  /\ localStorage \in AnyInitialStorages
  /\ page = [t \in Tabs |-> "/"]
  /\ nav = [t \in Tabs |-> null]
  /\ session = [t \in Tabs |-> InitialSession]
  /\ pc = [t \in Tabs |-> "mounted"]
  /\ requests = {}
  /\ calls = 0
  /\ sent = 0
  /\ unauthorized = 0
  /\ redirects = 0
  /\ lastCommit = null
  /\ clearedBy = null
  /\ lastInit = null
  /\ ui = [t \in Tabs |-> InitialUi("/")]
  /\ limit = MaxPageCalls

AnyStorageSpec == AnyStorageInit /\ [][PageNext]_vars

(***************************************************************************)
(* Properties.                                                             *)
(***************************************************************************)
\* The outcome that arrived for r is a failure with status 401.
Got401(r) ==
  /\ r.received # null
  /\ The(r.received).kind = "rejected"
  /\ The(r.received).response # null
  /\ The(The(r.received).response).status = 401

\* The Authorization header the stored token calls for.
ExpectedAuthorization(ls) ==
  IF ls.token # null /\ The(ls.token) # ""
    THEN {"Bearer " \o The(ls.token)}
    ELSE null

\* C1: every request sent by any call site carries Authorization: Bearer
\* <token> exactly when a non-empty token entry is in localStorage at the
\* moment it is sent, with that entry's current value, and no Authorization
\* header otherwise.
C1_HeaderAttachedIffToken ==
  [][\A r \in requests' :
       (\A q \in requests : q.id # r.id) =>
         r.config.headers.Authorization = ExpectedAuthorization(localStorage)]_vars

\* Two requests are in flight, one sent with the stored token and one sent
\* while no token was stored.
C1_Witness ==
  \E r1, r2 \in requests :
    /\ r1.config.headers.Authorization = {"Bearer tok456"}
    /\ r2.config.headers.Authorization = null
    /\ r1.received = null
    /\ r2.received = null

\* C2: once the response interceptor has run on a 401, of whichever call,
\* both persisted entries are absent.
C2_UnauthorizedClearsStorage ==
  \A r \in requests :
    Got401(r) => localStorage.user = null /\ localStorage.token = null

\* A login request that was sent with a stored token got a 401.
C2_Witness ==
  \E r \in requests :
    /\ Got401(r)
    /\ r.site = "LoginPage.handleSubmit"
    /\ r.config.headers.Authorization # null
    /\ localStorage = EmptyStorage

\* C3: on a 401 the interceptor sets the location to /login and rejects
\* with the failure it received, which is what the caller's handler gets.
C3_UnauthorizedRedirectsAndRejects ==
  \A r \in requests :
    Got401(r) =>
      /\ nav[r.tab] = {[to |-> "/login", hard |-> TRUE]}
      /\ r.settled = r.received
      /\ The(r.settled).kind = "rejected"

\* The dashboard's bookings request was rejected with the 401 it received
\* and the tab is leaving for /login.
C3_Witness ==
  \E r \in requests :
    /\ Got401(r)
    /\ r.site = "DashboardPage.load"
    /\ page[r.tab] = "/dashboard"
    /\ nav[r.tab] # null
    /\ r.settled = r.received

\* C4: a success, a failure with another status and a failure without a
\* response leave the persisted entries and the location alone and reach
\* the caller as they arrived.
C4_OtherOutcomesPassThrough ==
  [][\A r \in requests' :
       (/\ r.received # null
        /\ \E q \in requests : q.id = r.id /\ q.received = null
        /\ ~Got401(r)) =>
         /\ localStorage' = localStorage
         /\ nav' = nav
         /\ r.settled = r.received]_vars

\* A request failed without a response while a session was stored, and the
\* entries are still there.
C4_Witness ==
  \E r \in requests :
    /\ r.received = {NetworkError}
    /\ r.settled = {NetworkError}
    /\ localStorage.token = {"tok456"}
    /\ localStorage.user # null
    /\ nav[r.tab] = null

\* C5: the clear-and-redirect happens once for each 401 response and no
\* request is sent again: requests sent equal calls made.
C5_OncePerUnauthorizedNoRetry ==
  /\ redirects = unauthorized
  /\ sent = calls

\* Two calls were made and both were answered with 401.
C5_Witness ==
  /\ unauthorized = 2
  /\ redirects = 2
  /\ calls = 2
  /\ sent = 2

\* The step is the initialization effect of tab t.
InitStep(t) ==
  pc[t] = "mounted" /\ pc'[t] # "mounted" /\ page'[t] = page[t]

\* The header a committed credential calls for.
CommittedAuthorization(token) ==
  IF token # "" THEN {"Bearer " \o token} ELSE null

\* C6 as stated: after a commit every session that has loaded reports the
\* committed identity and every request sent afterwards carries the
\* committed credential.
C6_Original ==
  lastCommit # null =>
    /\ \A t \in Tabs :
         ~session[t].loading => session[t].user = {The(lastCommit).user}
    /\ \A r \in requests :
         r.id > The(lastCommit).calls =>
           r.config.headers.Authorization = {"Bearer " \o The(lastCommit).token}

\* C6 amended: while the committed entries stand, the session of the tab that
\* committed reports the committed identity once loaded, every session
\* initialized after the commit adopts it, every request sent carries Bearer
\* <credential> when the credential is not empty and no Authorization header
\* when it is; the commit leaves the sessions of the other tabs as they were.
C6_CommitObservedByCommitterAndLaterSessions ==
  /\ [](lastCommit # null =>
          (~session[The(lastCommit).tab].loading =>
             session[The(lastCommit).tab].user = {The(lastCommit).user}))
  /\ [][lastCommit # null =>
          /\ \A t \in Tabs :
               InitStep(t) => session'[t].user = {The(lastCommit).user}
          /\ \A r \in requests' :
               (\A q \in requests : q.id # r.id) =>
                 r.config.headers.Authorization =
                   CommittedAuthorization(The(lastCommit).token)]_vars
  /\ [][(lastCommit' # null /\ lastCommit' # lastCommit) =>
          \A t \in Tabs \ {The(lastCommit').tab} : session'[t] = session[t]]_vars

\* After a login committed Customer1 with tok123 the tab reloaded into the
\* dashboard, restored the identity and sent its bookings request with the
\* new credential, while the other tab still shows the earlier identity.
C6_Witness ==
  /\ lastCommit # null
  /\ The(lastCommit).user = Customer1
  /\ The(lastCommit).token = "tok123"
  /\ session[The(lastCommit).tab] = [user |-> {Customer1}, loading |-> FALSE]
  /\ \E r \in requests :
       /\ r.id > The(lastCommit).calls
       /\ r.tab = The(lastCommit).tab
       /\ r.config.headers.Authorization = {"Bearer tok123"}
  /\ \E t \in Tabs : session[t] = [user |-> {Worker2}, loading |-> FALSE]

\* C7: after useAuth's logout, and until the next commit, both persisted
\* entries are absent, the session of the tab that logged out reports no
\* identity, and every request is sent without an Authorization header.
C7_ClearRemovesSession ==
  /\ [](clearedBy # null =>
          /\ localStorage.user = null
          /\ localStorage.token = null
          /\ session[The(clearedBy)].user = null)
  /\ [][clearedBy # null =>
          \A r \in requests' :
            (\A q \in requests : q.id # r.id) =>
              r.config.headers.Authorization = null]_vars

\* The tab that logged out has gone to /login and sent a login request, which
\* carries no Authorization header.
C7_Witness ==
  /\ clearedBy # null
  /\ \E r \in requests :
       /\ r.tab = The(clearedBy)
       /\ r.site = "LoginPage.handleSubmit"
       /\ r.received = null
       /\ r.config.headers.Authorization = null
  /\ localStorage = EmptyStorage

\* C8: an initialization that follows a commit, with no logout and no 401 in
\* between, yields the committed identity and loading false.
C8_CommitThenInitRestores ==
  [][\A t \in Tabs :
       (lastCommit # null /\ InitStep(t)) =>
         session'[t] = [user |-> {The(lastCommit).user}, loading |-> FALSE]]_vars

\* The tab that committed Customer1 has reloaded into the dashboard and its
\* new session holds Customer1 again.
C8_Witness ==
  /\ lastCommit # null
  /\ The(lastCommit).user = Customer1
  /\ page[The(lastCommit).tab] = "/dashboard"
  /\ pc[The(lastCommit).tab] = "guard"
  /\ session[The(lastCommit).tab] = [user |-> {Customer1}, loading |-> FALSE]

\* The stored identity entry holds text that JSON.parse rejects.
Malformed(ls) == ls.user # null /\ JSONparse(The(ls.user)).threw

\* C9: with an identity entry that cannot be parsed, initialization ends
\* with no identity and loading false, and no exception escapes.
C9_MalformedEntryIsLoggedOut ==
  [][\A t \in Tabs :
       (InitStep(t) /\ Malformed(localStorage)) =>
         /\ session'[t] = [user |-> null, loading |-> FALSE]
         /\ pc'[t] # "crashed"]_vars

\* Both tabs have initialized over the entry `{not json`.
C9_Witness ==
  /\ localStorage.user = {NotJson}
  /\ \A t \in Tabs :
       /\ pc[t] \in {"guard", "ready"}
       /\ session[t] = [user |-> null, loading |-> FALSE]

\* C10: initializations with no change of the persisted entries in between
\* (no commit, no logout, no 401) yield the same identity, each leaves
\* loading false, which stays false, and none writes to localStorage.
C10_InitializationIdempotent ==
  /\ [](\A t \in Tabs : pc[t] # "mounted" => ~session[t].loading)
  /\ [][\A t \in Tabs :
          InitStep(t) =>
            /\ localStorage' = localStorage
            /\ ~session'[t].loading
            /\ (lastInit # null => session'[t].user = The(lastInit))]_vars

\* With no call made, both tabs have initialized from the stored session and
\* hold the same identity.
C10_Witness ==
  /\ calls = 0
  /\ lastInit = {{Worker2}}
  /\ \A t \in Tabs :
       /\ pc[t] # "mounted"
       /\ session[t] = [user |-> {Worker2}, loading |-> FALSE]

\* C11: starting from empty storage, after any sequence of commits, logouts
\* of the hook, 401 interceptions and logouts of the dashboard and search
\* pages, the identity entry is present exactly when the credential entry is.
C11_EntriesPresentTogether ==
  (localStorage.user = null) <=> (localStorage.token = null)

\* A login committed both entries, the dashboard loaded and its Logout
\* button removed both again: the page still holds the identity and is
\* leaving for /login.
C11_Witness ==
  /\ localStorage = EmptyStorage
  /\ \E t \in Tabs :
       /\ page[t] = "/dashboard"
       /\ pc[t] = "ready"
       /\ session[t].user = {Customer1}
       /\ nav[t] = {[to |-> "/login", hard |-> FALSE]}

\* The step runs effects of tab t's page (the first commit's effects, or the
\* guard effect after the session loaded) with no navigation pending.
EffectStep(t) ==
  /\ pc[t] \in {"mounted", "guard"}
  /\ pc'[t] \notin {pc[t], "mounted"}
  /\ page'[t] = page[t]
  /\ nav[t] = null

\* router.push(to) as the pending navigation.
Pushed(to) == {[to |-> to, hard |-> FALSE]}

\* The identity entry holds text that parses to an object.
WellFormed(ls) ==
  /\ ls.user # null
  /\ ~JSONparse(The(ls.user)).threw
  /\ JSONparse(The(ls.user)).value # null

\* C12: the effects of a page start no navigation while the session it
\* rendered with is loading, a guard pushes /login only over a loaded
\* session without identity, and initialization over a well-formed identity
\* entry ends with loading false and the identity present in one step.
C12_NoRedirectWhileLoading ==
  [][\A t \in Tabs :
       /\ (EffectStep(t) /\ session[t].loading) => nav'[t] = nav[t]
       /\ (EffectStep(t) /\ nav'[t] = Pushed("/login")) =>
            (~session[t].loading /\ session[t].user = null)
       /\ (InitStep(t) /\ WellFormed(localStorage)) =>
            (~session'[t].loading /\ session'[t].user # null /\ nav'[t] = nav[t])]_vars

\* The search page has initialized from a stored customer session: its guard
\* effect has run once over the loading session and is due again, and no
\* navigation is pending.
C12_Witness ==
  /\ page[1] = "/search"
  /\ pc[1] = "guard"
  /\ session[1] = [user |-> {Customer1}, loading |-> FALSE]
  /\ nav[1] = null

\* The page of tab t passes its render's checks of the session.
Admitted(t) ==
  /\ ~session[t].loading
  /\ session[t].user # null
  /\ RequiredRole(page[t]) # null =>
       The(session[t].user).role \in RequiredRole(page[t])

\* The step is the guard effect of tab t's page over the loaded session.
GuardStep(t) ==
  /\ pc[t] = "guard"
  /\ pc'[t] \notin {"guard", "mounted"}
  /\ page'[t] = page[t]
  /\ nav[t] = null

\* C13: a protected page renders its content only over a loaded session
\* with an identity whose role is the one a profile page asks for; its
\* guard effect over a loaded session without identity pushes /login, over
\* an identity of another role on a profile page pushes /dashboard, and in
\* both cases issues no request.
C13_ProtectedPagesGuarded ==
  /\ [](\A t \in Tabs :
          (page[t] \in GuardedPages
             /\ Render(page[t], session[t], ui[t]) \in {"content", "spinner"}) =>
            Admitted(t))
  /\ [][\A t \in Tabs :
          (GuardStep(t) /\ ~Admitted(t)) =>
            /\ nav'[t] = Pushed(IF session[t].user = null THEN "/login"
                                ELSE "/dashboard")
            /\ requests' = requests
            /\ calls' = calls]_vars

\* A customer opened the worker profile page: the guard has pushed
\* /dashboard, nothing was requested and nothing is rendered.
C13_Witness ==
  /\ page[1] = "/dashboard/worker-profile"
  /\ pc[1] = "ready"
  /\ session[1] = [user |-> {Customer1}, loading |-> FALSE]
  /\ nav[1] = Pushed("/dashboard")
  /\ calls = 0
  /\ Render(page[1], session[1], ui[1]) = "null"

\* The step removes the persisted entries.
Cleared == localStorage # EmptyStorage /\ localStorage' = EmptyStorage

\* C14 as stated: whenever the persisted session is cleared while a
\* protected page is mounted in a tab (by a logout or by the interceptor on
\* a 401), that page's guard effect is due again and the session it reads
\* holds no identity.
C14_GuardReevaluatedOnClear ==
  [][\A t \in Tabs :
       (/\ Cleared
        /\ page[t] \in GuardedPages
        /\ page'[t] = page[t]
        /\ pc[t] # "mounted"
        /\ pc'[t] # "mounted") =>
         (pc'[t] = "guard" /\ session'[t].user = null)]_vars

\* C15 as stated: the persisted entries change only in a commit or a clear
\* of the session hook or in the response interceptor.
C15_StorageOnlyThroughStoreAndPipeline ==
  [][localStorage' # localStorage =>
       \/ \E r \in requests : SubmitContinue(r)
       \/ \E t \in Tabs : HomeLogout(t)
       \/ \E r \in requests :
            \E outcome \in PageOutcomes(r.site) : Respond(r, outcome)]_vars

\* The identity the identity entry holds (null: none, or not parseable).
StoredIdentity(ls) ==
  IF ls.user = null \/ JSONparse(The(ls.user)).threw THEN null
  ELSE JSONparse(The(ls.user)).value

\* C16 as stated: all sessions that have loaded report the same identity or
\* the same absence, and it is the one the identity entry holds.
C16_SingleSourceOfTruth ==
  \A t \in Tabs :
    ~session[t].loading =>
      /\ session[t].user = StoredIdentity(localStorage)
      /\ \A o \in Tabs : ~session[o].loading => session[o].user = session[t].user

\* C17 as stated: once a request of a mounted page has been answered with
\* 401, the session of its tab reports no identity.
C17_IdentityDestroyedOnUnauthorized ==
  \A r \in requests :
    (Got401(r) /\ ~r.orphan) => session[r.tab].user = null

\* The call sites of the user-triggered actions.
ActionSites ==
  {"LoginPage.handleSubmit", "RegisterPage.handleSubmit",
   "WorkerProfilePage.handleSubmit", "TutorProfilePage.handleSubmit",
   "SearchPage.runSearch", "SearchPage.handleBook", "ChatPage.send",
   "DashboardPage.updateBookingStatus"}

\* The requests of a control of tab t's page that have not been answered.
Outstanding(t, site, arg) ==
  {r \in requests :
     r.tab = t /\ r.site = site /\ r.arg = arg /\ ~r.orphan /\ r.received = null}

\* C18 as stated: every user-triggered action, the dashboard's Accept,
\* Reject and Mark completed buttons included, has at most one request
\* outstanding at any time.
C18_OneOutstandingRequestPerAction ==
  \A t \in Tabs : \A site \in ActionSites :
    \A arg \in {null, {"accepted"}, {"cancelled"}, {"completed"}} :
      Cardinality(Outstanding(t, site, arg)) <= 1

\* The call sites whose handler sets the page's loading flag.
LoadingSites == ActionSites \ {"SearchPage.handleBook",
                               "DashboardPage.updateBookingStatus"}

\* The in-flight flag of a call site's action, in the component state u.
InFlight(u, site) ==
  IF site = "SearchPage.handleBook" THEN u.bookingSubmitting ELSE u.loading

\* A handler of one of the sites is suspended at its await or about to resume.
Running(t, sites) ==
  \E r \in requests : r.tab = t /\ ~r.orphan /\ r.site \in sites

\* The step resumes the handler that awaited request r and runs it to its end.
Resumes(r) == r.settled # null /\ r \notin requests'

NonAuthFailure(r) ==
  /\ r.settled # null
  /\ The(r.settled).kind = "rejected"
  /\ ~IsUnauthorized(The(r.settled))

\* The call sites of the form pages, which show an error text.
FormSites ==
  {"LoginPage.handleSubmit", "RegisterPage.handleSubmit",
   "WorkerProfilePage.handleSubmit", "TutorProfilePage.handleSubmit"}

\* C20 as stated: when the handler of a mounted page resumes with a failure
\* other than a 401, no navigation starts, the persisted entries and the
\* sessions stay as they are, and a form page shows the failure's detail
\* or, without one, its generic message.
C20_OtherFailuresSurfacedInPlace ==
  [][\A r \in requests :
       (NonAuthFailure(r) /\ Resumes(r) /\ ~r.orphan) =>
         /\ nav' = nav
         /\ page' = page
         /\ session' = session
         /\ localStorage' = localStorage
         /\ r.site \in FormSites =>
              ui'[r.tab].error = ErrorMessage(The(r.settled), Fallback(r.site))]_vars

\* The call sites that log a user in.
AuthSites == {"LoginPage.handleSubmit", "RegisterPage.handleSubmit"}

\* The entries a commit of u and token writes.
CommittedEntries(u, token) ==
  [user |-> {JSONstringify(u)}, token |-> {token}]

\* Tab t made the last commit and its entries stand.
Committed(t) == lastCommit # null /\ The(lastCommit).tab = t

\* Tab t is between the commit and the end of the dashboard's guard effect:
\* the document load of /dashboard is pending on the login or register
\* page, or the dashboard is mounted and its effects have not finished.
Arriving(t) ==
  \/ page[t] \in {"/login", "/register"} /\ nav[t] = Assign("/dashboard")
  \/ page[t] = "/dashboard" /\ pc[t] \in {"mounted", "guard"}

\* C21: when the handler of the login or register page resumes with a
\* success, the step commits the returned identity and credential and only
\* starts the document load of /dashboard; whenever that load is pending on
\* these pages the committed entries are in localStorage, and they stay
\* through the load and the dashboard's effects unless a 401 sends the tab
\* to /login; on the dashboard initialization then restores the committed
\* identity and the guard pushes nothing and starts load() with the
\* committed credential. When the handler resumes with a failure, nothing
\* is committed and no navigation starts.
C21_CommitBeforeDashboard ==
  /\ [](\A t \in PageTabs :
          (page[t] \in {"/login", "/register"} /\ nav[t] = Assign("/dashboard")) =>
            /\ Committed(t)
            /\ localStorage =
                 CommittedEntries(The(lastCommit).user, The(lastCommit).token))
  /\ [][\A r \in requests :
          (Resumes(r) /\ r.site \in AuthSites) =>
            IF Succeeded(r)
              THEN /\ localStorage' =
                        CommittedEntries(The(Data(r).user), The(Data(r).access_token))
                   /\ session'[r.tab].user = Data(r).user
                   /\ nav'[r.tab] = Assign("/dashboard")
                   /\ page' = page
              ELSE /\ localStorage' = localStorage
                   /\ session' = session
                   /\ lastCommit' = lastCommit
                   /\ nav' = nav]_vars
  /\ [][\A t \in PageTabs :
          /\ (Committed(t) /\ Arriving(t) /\ nav'[t] # Assign("/login")) =>
               lastCommit' = lastCommit
          /\ (Committed(t) /\ page[t] = "/dashboard" /\ InitStep(t)) =>
               /\ session'[t] = [user |-> {The(lastCommit).user}, loading |-> FALSE]
               /\ nav'[t] = null
          /\ (Committed(t) /\ page[t] = "/dashboard" /\ GuardStep(t)) =>
               /\ nav'[t] = null
               /\ \E r \in requests' :
                    /\ r.site = "DashboardPage.load"
                    /\ r.user = {The(lastCommit).user}
                    /\ r.config.headers.Authorization =
                         CommittedAuthorization(The(lastCommit).token)]_vars

\* A login committed Tutor3, the tab loaded the dashboard, restored Tutor3
\* and its guard started load() with the new credential.
C21_Witness ==
  /\ lastCommit # null
  /\ The(lastCommit).user = Tutor3
  /\ page[1] = "/dashboard"
  /\ pc[1] = "loading"
  /\ nav[1] = null
  /\ session[1] = [user |-> {Tutor3}, loading |-> FALSE]
  /\ \E r \in requests :
       /\ r.site = "DashboardPage.load"
       /\ r.id = The(lastCommit).calls + 1
       /\ r.config.headers.Authorization = {"Bearer tok123"}

\* C22 as stated: every request of the worker profile form is one POST
\* /api/workers/profile with a multipart body that carries the service type
\* selected, the price entered, and the ID document when one was chosen and
\* no id_document field otherwise.
C22_WorkerProfileBody ==
  \A r \in requests :
    r.site = "WorkerProfilePage.handleSubmit" =>
      /\ r.config.method = "post"
      /\ r.config.url = "/api/workers/profile"
      /\ r.config.headers.ContentType = "multipart/form-data"
      /\ r.body = {[service_type |-> The(r.input).serviceType,
                    price |-> The(r.input).price,
                    id_document |-> The(r.input).idDocument]}

\* The step is one in which tab o's own page writes its hook state: a page
\* load, the initialization effect, a commit or the hook's logout.
OwnSessionStep(o) ==
  \/ Load(o)
  \/ \E p \in Pages : OpenPage(o, p)
  \/ Initialize(o)
  \/ HomeLogout(o)
  \/ \E r \in requests : r.tab = o /\ SubmitContinue(r)

\* The loaded session of tab o reports an identity the identity entry does
\* not hold.
Stale(o) ==
  /\ ~session[o].loading
  /\ session[o].user # null
  /\ session[o].user # StoredIdentity(localStorage)

\* C23: a step changes the session of a tab only when it is a step of that
\* tab's own page, so a commit, a logout or a 401 in one tab leaves the
\* session of the other tab as it was; a session that reports an identity
\* the persisted entries do not hold keeps reporting it through every step
\* of the other tab, changes to the entries included, and the tab's next
\* initialization adopts what the identity entry holds then.
C23_OtherTabSessionNotUpdated ==
  [][\A o \in Tabs :
       /\ session'[o] # session[o] => OwnSessionStep(o)
       /\ (Stale(o) /\ localStorage' # localStorage /\ session'[o] # session[o]) =>
            (HomeLogout(o) \/ \E r \in requests : r.tab = o /\ SubmitContinue(r))
       /\ InitStep(o) => session'[o].user = StoredIdentity(localStorage')]_vars

\* Tab 2 logged out through the hook; tab 1, loaded before, still reports
\* Worker2 over the empty storage.
C23_Witness ==
  /\ clearedBy = {2}
  /\ localStorage = EmptyStorage
  /\ pc[1] = "ready"
  /\ session[1] = [user |-> {Worker2}, loading |-> FALSE]
  /\ Stale(1)

\* C24: the session of a freshly mounted page has loading true; the
\* initialization effect sets it to false, over an identity entry that is
\* present, absent or malformed, and also where window is not defined, and
\* no exception escapes it; loading changes in no other step of the page, a
\* commit and a logout included, and is true again only in the new session
\* of a page load.
C24_LoadingFalseOnceForGood ==
  /\ [](\A t \in Tabs :
          pc[t] = "mounted" =>
            /\ session[t] = InitialSession
            /\ \A windowDefined \in BOOLEAN :
                 LET res == InitEffectIn(windowDefined, session[t], localStorage)
                 IN /\ ~res.loading
                    /\ ~res.threw
                    /\ res.localStorage = localStorage
                    /\ ~windowDefined => res.user = null)
  /\ [][\A t \in Tabs :
          /\ InitStep(t) => (session[t].loading /\ ~session'[t].loading)
          /\ (session'[t].loading # session[t].loading) =>
               \/ InitStep(t)
               \/ (pc'[t] = "mounted" /\ session'[t] = InitialSession)
          /\ (~session[t].loading /\ pc'[t] # "mounted") => ~session'[t].loading]_vars

\* Tab 2 initialized over an entry that does not parse, then tab 1 committed
\* a login: both sessions have loading false.
C24_Witness ==
  /\ lastCommit # null
  /\ The(lastCommit).tab = 1
  /\ page[1] = "/login"
  /\ session[1] = [user |-> {The(lastCommit).user}, loading |-> FALSE]
  /\ pc[2] = "ready"
  /\ session[2] = [user |-> null, loading |-> FALSE]
  /\ unauthorized = 0
  /\ clearedBy = null

\* C25 as stated: whenever a session reports an identity, its role is one
\* of customer, worker and tutor, whatever parseable text the identity entry
\* held when the session was initialized.
C25_IdentityRoleIsKnown ==
  \A t \in Tabs :
    session[t].user # null => The(session[t].user).role \in UserRole

\* The status changes the dashboard may ask for: from, to.
AllowedTransitions ==
  {<<"pending", "accepted">>, <<"pending", "cancelled">>,
   <<"accepted", "completed">>}

UpdateSite == "DashboardPage.updateBookingStatus"

\* The requests the step issues.
Issued == {r \in requests' : \A q \in requests : q.id # r.id}

\* C26: every status update the dashboard issues is for a booking of its
\* locally held list and one of pending -> accepted, pending -> cancelled,
\* accepted -> completed by that booking's local status; accepted and
\* cancelled are asked for only by a user who is not a customer and is the
\* booking's provider, completed only by the booking's customer or
\* provider; when the update succeeded the handler lists the bookings again
\* and a listing that succeeds replaces the local list; when the update or
\* the listing failed the local list stays as it was and nothing is issued.
C26_BookingStatusTransitions ==
  /\ [][\A r \in Issued :
          r.site = UpdateSite =>
            LET b == The(r.input)
                to == The(r.arg)
                user == The(session[r.tab].user)
            IN /\ page[r.tab] = "/dashboard"
               /\ b \in ui[r.tab].bookingsList
               /\ <<b.status, to>> \in AllowedTransitions
               /\ to \in {"accepted", "cancelled"} =>
                    (user.role # "customer" /\ b.provider_id = user.id)
               /\ to = "completed" =>
                    (b.customer_id = user.id \/ b.provider_id = user.id)
               /\ r.config.method = "patch"]_vars
  /\ [][\A r \in requests :
          /\ (Resumes(r) /\ r.site = UpdateSite) =>
               /\ ui' = ui
               /\ IF Succeeded(r)
                    THEN \E l \in Issued :
                           /\ Issued = {l}
                           /\ l.site = "DashboardPage.updateBookingStatus.list"
                           /\ l.tab = r.tab
                    ELSE Issued = {}
          /\ (Resumes(r) /\ r.site = "DashboardPage.updateBookingStatus.list") =>
               /\ Issued = {}
               /\ ui' = IF Succeeded(r) /\ ~r.orphan
                          THEN [ui EXCEPT ![r.tab].bookingsList = Data(r).bookings]
                          ELSE ui]_vars

\* Customer1 marked the accepted booking completed, the update succeeded and
\* the bookings are being listed again.
C26_Witness ==
  /\ page[1] = "/dashboard"
  /\ session[1].user = {Customer1}
  /\ ui[1].bookingsList = {Booking1("accepted")}
  /\ \E l \in requests :
       /\ l.site = "DashboardPage.updateBookingStatus.list"
       /\ ~l.orphan
       /\ l.received = null

BookSite == "SearchPage.handleBook"

\* handleBook's three conditions over the component state u and the session
\* identity.
BookingAllowed(u, user) ==
  /\ u.bookingModal # null
  /\ user # null
  /\ The(user).role = "customer"
  /\ BookingPriceValid(u.bookingPrice)

\* C27: a booking request is issued only from a state in which a provider
\* is selected in the modal, the identity is a customer and the price text
\* parses to a number above 0, and it carries that provider and that number;
\* for every other provider selection, identity and price text handleBook
\* calls nothing and returns the component state it was given. When the
\* handler resumes with a success the modal is closed, the price text is
\* empty and runSearch has run (a search request is issued, or without a
\* selection the results are emptied); when it resumes with a failure the
\* modal, the price text and the results are as they were and nothing is
\* issued.
C27_BookingOnlyWhenValid ==
  /\ [](\A t \in PageTabs :
          page[t] = "/search" =>
            \A m \in {null, {Provider2}}, text \in PriceTexts,
               user \in {null} \cup {{x} : x \in Users} :
              LET u == [ui[t] EXCEPT !.bookingModal = m, !.bookingPrice = text]
              IN ~BookingAllowed(u, user) =>
                   handleBook(u, user) = [ui |-> u, call |-> FALSE, body |-> null])
  /\ [][\A r \in Issued :
          r.site = BookSite =>
            /\ BookingAllowed(ui[r.tab], session[r.tab].user)
            /\ r.config.method = "post"
            /\ r.config.url = "/api/bookings"
            /\ r.body = {[provider_id |-> The(ui[r.tab].bookingModal).id,
                          service_type |-> The(ui[r.tab].bookingModal).service_type,
                          total_price |-> parseFloat(ui[r.tab].bookingPrice).value]}
            /\ ui'[r.tab] = [ui[r.tab] EXCEPT !.bookingSubmitting = TRUE]]_vars
  /\ [][\A r \in requests :
          (Resumes(r) /\ r.site = BookSite /\ ~r.orphan) =>
            IF Succeeded(r)
              THEN /\ ui'[r.tab].bookingModal = null
                   /\ ui'[r.tab].bookingPrice = ""
                   /\ ~ui'[r.tab].bookingSubmitting
                   /\ \/ /\ \E q \in Issued :
                              Issued = {q} /\ q.site = "SearchPage.runSearch"
                         /\ ui'[r.tab].loading
                      \/ /\ Issued = {}
                         /\ ui'[r.tab].results = {}
                         /\ ~ui'[r.tab].loading
              ELSE /\ ui'[r.tab] = [ui[r.tab] EXCEPT !.bookingSubmitting = FALSE]
                   /\ Issued = {}]_vars

\* Customer1's booking of Provider2 for 250 has been answered with success
\* and the handler is about to resume: the modal is still open.
C27_Witness ==
  /\ page[1] = "/search"
  /\ session[1].user = {Customer1}
  /\ ui[1].bookingModal = {Provider2}
  /\ ui[1].bookingPrice = "250"
  /\ ui[1].bookingSubmitting
  /\ \E r \in requests :
       /\ r.site = BookSite
       /\ r.settled # null
       /\ Succeeded(r)
       /\ The(r.body).total_price = 250

ChatSite == "ChatPage.send"

\* The transcript alternates user, assistant, starting with user.
Alternates(m) ==
  \A i \in 1..Len(m) :
    m[i].role = IF i % 2 = 1 THEN "user" ELSE "assistant"

\* A chat request of tab t's page is in flight or about to resume its handler.
ChatInFlight(t) == Running(t, {ChatSite})

\* C28: on the chat page the transcript alternates user, assistant from a
\* user message on, with even length whenever no chat request is in flight
\* and odd length while one is; a send with a text that is blank after
\* trimming, or while loading, calls nothing and returns the component
\* state it was given; a send that issues a request appends one user
\* message with the trimmed text and posts that text with the transcript
\* before the send followed by the new message; when the handler resumes it
\* appends one assistant message: the reply, or the failure's detail or,
\* without one, the generic apology.
C28_ChatTranscriptAlternates ==
  /\ [](\A t \in PageTabs :
          page[t] = "/chat" =>
            /\ Alternates(ui[t].messages)
            /\ Len(ui[t].messages) % 2 = (IF ChatInFlight(t) THEN 1 ELSE 0)
            /\ ui[t].loading <=> ChatInFlight(t)
            /\ \A input \in ChatTexts :
                 (trim(input) = "" \/ ui[t].loading) =>
                   send(ui[t], input) = [ui |-> ui[t], call |-> FALSE, body |-> null])
  /\ [][\A r \in Issued :
          r.site = ChatSite =>
            LET before == ui[r.tab].messages
                after == ui'[r.tab].messages
            IN /\ ~ChatInFlight(r.tab)
               /\ Len(after) = Len(before) + 1
               /\ SubSeq(after, 1, Len(before)) = before
               /\ after[Len(after)].role = "user"
               /\ after[Len(after)].content # ""
               /\ \E input \in ChatTexts : after[Len(after)].content = trim(input)
               /\ r.body = {[message |-> after[Len(after)].content,
                             conversation_history |-> after]}
               /\ Issued = {r}]_vars
  /\ [][\A r \in requests :
          (Resumes(r) /\ r.site = ChatSite /\ ~r.orphan) =>
            /\ ui'[r.tab].messages =
                 Append(ui[r.tab].messages,
                        [role |-> "assistant",
                         content |-> IF Succeeded(r) THEN The(Data(r).reply)
                                     ELSE ErrorMessage(The(r.settled),
                                            "Sorry, I couldn't process that. Please try again.")])
            /\ ~ui'[r.tab].loading
            /\ Issued = {}]_vars

\* Two exchanges: the first message was answered with the backend's detail,
\* the second with a reply, and nothing is in flight.
C28_Witness ==
  /\ page[1] = "/chat"
  /\ ~ChatInFlight(1)
  /\ ~ui[1].loading
  /\ ui[1].messages =
       <<[role |-> "user", content |-> "hello"],
         [role |-> "assistant", content |-> "Not allowed"],
         [role |-> "user", content |-> "hello"],
         [role |-> "assistant", content |-> "Try B"]>>

\* Request r was sent before the last commit, whose entries stand, and has
\* not been answered.
OlderThanCommit(r) ==
  /\ lastCommit # null
  /\ r.id <= The(lastCommit).calls
  /\ r.received = null

\* The step hands request r its answer, a 401.
Answers401(r) ==
  /\ r.received = null
  /\ \E q \in requests' : q.id = r.id /\ Got401(q)

\* C29: when a request that was sent before the last commit is answered
\* with 401, the interceptor removes the committed identity and credential
\* and sends the request's tab to /login, whatever Authorization header the
\* request carried; the session of the tab that committed is left as it was.
C29_StaleUnauthorizedErasesNewSession ==
  [][\A r \in requests :
       (OlderThanCommit(r) /\ Answers401(r)) =>
         /\ localStorage' = EmptyStorage
         /\ lastCommit' = null
         /\ nav'[r.tab] = Assign("/login")
         /\ session' = session]_vars

\* Tab 2 committed Customer1 while a request of tab 1 that carried the
\* earlier credential was in flight; that request has now been answered
\* with 401 and the entries are gone, tab 2 being on its way to the
\* dashboard.
C29_Witness ==
  /\ localStorage = EmptyStorage
  /\ page[2] = "/login"
  /\ session[2] = [user |-> {Customer1}, loading |-> FALSE]
  /\ nav[2] = Assign("/dashboard")
  /\ \E r \in requests :
       /\ r.tab = 1
       /\ Got401(r)
       /\ r.config.headers.Authorization = {"Bearer tok456"}
====
